---- MODULE Spec2Model ----
(***************************************************************************)
(* Model of one firmware update session of examples/download.rs            *)
(* (Cli::run): pre-flight peripheral reset, device acquisition with the    *)
(* optional wait loop, the monitored firmware write, the recovery arm      *)
(* (bus reset, serial wait loop) and the post-download reset.              *)
(* The collaborators (DfuLibusb::open, Dfu::download, Dfu::usb_reset,      *)
(* serialport::available_ports, reset_mcu, the file system) are modelled   *)
(* by a nondeterministic choice over the results they can return.          *)
(***************************************************************************)
EXTENDS Integers, Sequences, FiniteSets, TLC

(* ---------------------------- bounds ----------------------------------- *)

\* largest low 32-bit limb of the firmware file length that is explored
MaxLen == 3
\* largest high limb (bits 32..63) of the firmware file length explored
MaxHi == 1
\* number of "device not present" answers the wait loop is explored for
MaxOpens == 3
\* longest argument of the parsers built from ParseAlphabet
MaxText == 2

(* ------------------------ program constants ---------------------------- *)

\* for _ in 0..20
SerialPolls == 20

\* frames of the spinner that bar.tick() steps through
SpinnerFrames == 2

NoPort == "None"
PortNames == {"COM7", "COM8"}
\* values of the --serial-port option
SerialPortOptions == {NoPort, "COM7"}

\* results of DfuLibusb::open
OpenResults == {"Ok", "CouldNotOpenDevice", "LibUsbAccess", "LibUsbBusy"}
\* results of Dfu::download
DownloadResults == {"Ok", "LibUsb", "Dfu", "Io"}
\* results of serialport::available_ports: an error or the visible port names
PortListings == {[ok |-> FALSE, ports |-> {}]}
                \cup {[ok |-> TRUE, ports |-> ps] : ps \in SUBSET PortNames}

OpenContext == "could not open device"
WriteContext == "could not write firmware to the device"
FileContext == "could not open firmware file"
TooBigContext == "the firmware file is too big"

VARIABLES
    pc,             \* position of Cli::run
    wait,           \* --wait
    reset,          \* --reset
    serial_port,    \* --serial-port (NoPort when absent)
    override_address, \* --override-address given
    file_len_hi,    \* firmware file length, bits 32..63
    file_len_lo,    \* firmware file length, bits 0..31
    file_size,      \* file_size: u32
    opens,          \* results of the DfuLibusb::open calls, in order
    handle,         \* 0, or the index of the open call that gave the device
    position,       \* bar.position()
    finished,       \* bar.is_finished()
    dlResult,       \* result of device.download ("none" before it returns)
    recovery,       \* the Err(Error::LibUsb(e)) if bar.is_finished() arm was taken
    resetResult,    \* result of the last device.usb_reset ("none", "Ok", "Err")
    nReset,         \* number of device.usb_reset calls
    nDownload,      \* number of device.download calls
    nOverride,      \* number of device.override_address calls
    nPreReset,      \* number of reset_mcu calls
    preResetResult, \* result of reset_mcu ("none", "Ok", "Err")
    spinner,        \* position of the "Waiting for device" spinner (bar.tick())
    poll,           \* iterations of the serial wait loop started
    nEnum,          \* number of serialport::available_ports calls
    firstMatch,     \* index of the first listing holding serial_port, 0 if none
    enumFailed,     \* some available_ports call returned Err
    text,           \* argument of parse_vid_pid / parse_address
    parsed,         \* result of parse_vid_pid / parse_address
    result          \* value returned by Cli::run

vars == <<pc, wait, reset, serial_port, override_address, file_len_hi,
          file_len_lo, file_size, opens, handle, position, finished, dlResult,
          recovery, resetResult, nReset, nDownload, nOverride, nPreReset,
          preResetResult, spinner, poll, nEnum, firstMatch, enumFailed, text,
          parsed, result>>

parseVars == <<text, parsed>>
options == <<wait, reset, serial_port, override_address, file_len_hi, file_len_lo>>
flags == <<options, parseVars>>
fileVars == <<file_size>>
openVars == <<opens, handle, spinner>>
preVars == <<nPreReset, preResetResult>>
barVars == <<position, finished>>
dlVars == <<dlResult, recovery, nDownload, nOverride>>
resetVars == <<resetResult, nReset>>
serialVars == <<poll, nEnum, firstMatch, enumFailed>>

NotParsed == [fn |-> "none", ok |-> FALSE, a |-> 0, b |-> 0, err |-> ""]

Running == [status |-> "Running", op |-> "", cause |-> "", context |-> ""]
Ok == [status |-> "Ok", op |-> "", cause |-> "", context |-> ""]
Err(op, cause, context) ==
    [status |-> "Err", op |-> op, cause |-> cause, context |-> context]

\* return from Cli::run
Return(r) == /\ pc' = "Done"
             /\ result' = r

Goto(l) == /\ pc' = l
           /\ result' = result

Init ==
    /\ pc = "Logger"
    /\ wait \in BOOLEAN
    /\ reset \in BOOLEAN
    /\ serial_port \in SerialPortOptions
    /\ override_address \in BOOLEAN
    /\ file_len_hi \in 0..MaxHi
    /\ file_len_lo \in 0..MaxLen
    /\ file_size = 0
    /\ opens = <<>>
    /\ handle = 0
    /\ position = 0
    /\ finished = FALSE
    /\ dlResult = "none"
    /\ recovery = FALSE
    /\ resetResult = "none"
    /\ nReset = 0
    /\ nDownload = 0
    /\ nOverride = 0
    /\ nPreReset = 0
    /\ preResetResult = "none"
    /\ spinner = 0
    /\ poll = 0
    /\ nEnum = 0
    /\ firstMatch = 0
    /\ enumFailed = FALSE
    /\ text = <<>>
    /\ parsed = NotParsed
    /\ result = Running

(* ------------------------- pre-flight ---------------------------------- *)

\* fault: the serial branch is taken whether or not --serial-port was given
SerialConfigured_Always(sp) == TRUE

\* if let Some(serial_port) = &serial_port
SerialConfigured(sp) == sp # NoPort

\* simplelog::SimpleLogger::init(log_level, Default::default())?
LoggerInit(ok) ==
    /\ pc = "Logger"
    /\ IF ok THEN Goto("PreReset") ELSE Return(Err("logger", "SetLoggerError", ""))
    /\ UNCHANGED <<flags, fileVars, openVars, barVars, dlVars, resetVars,
                   serialVars, preVars>>

\* fault: `reset_mcu(&serial_port)?` instead of the match that only reports
PreReset_Aborts(ok) ==
    /\ pc = "PreReset"
    /\ IF SerialConfigured(serial_port)
       THEN /\ nPreReset' = nPreReset + 1
            /\ preResetResult' = IF ok THEN "Ok" ELSE "Err"
            /\ IF ok THEN Goto("Context") ELSE Return(Err("reset_mcu", "Io", ""))
       ELSE /\ UNCHANGED preVars
            /\ Goto("Context")
    /\ UNCHANGED <<flags, fileVars, openVars, barVars, dlVars, resetVars, serialVars>>

\* reset_mcu(&serial_port): both arms of the match fall through to bar.finish()
PreReset(ok) ==
    /\ pc = "PreReset"
    /\ IF SerialConfigured(serial_port)
       THEN /\ nPreReset' = nPreReset + 1
            /\ preResetResult' = IF ok THEN "Ok" ELSE "Err"
       ELSE UNCHANGED preVars
    /\ Goto("Context")
    /\ UNCHANGED <<flags, fileVars, openVars, barVars, dlVars, resetVars, serialVars>>

\* rusb::Context::new()?
ContextNew(ok) ==
    /\ pc = "Context"
    /\ IF ok THEN Goto("FileOpen") ELSE Return(Err("context", "LibUsb", ""))
    /\ UNCHANGED <<flags, fileVars, openVars, barVars, dlVars, resetVars,
                   serialVars, preVars>>

\* std::fs::File::open(path).context("could not open firmware file")?
FileOpen(ok) ==
    /\ pc = "FileOpen"
    /\ IF ok THEN Goto("FileSize") ELSE Return(Err("file", "Io", FileContext))
    /\ UNCHANGED <<flags, fileVars, openVars, barVars, dlVars, resetVars,
                   serialVars, preVars>>

\* fault: `as u32` (truncation) instead of u32::try_from
U32TryFromOk_Truncates(hi, lo) == TRUE

\* u32::try_from(n: u64): the value when bits 32..63 are clear
U32TryFromOk(hi, lo) == hi = 0

\* u32::try_from(file.seek(io::SeekFrom::End(0))?).context(...)?
FileSize(seekOk) ==
    /\ pc = "FileSize"
    /\ IF ~seekOk
       THEN /\ Return(Err("seek", "Io", ""))
            /\ UNCHANGED file_size
       ELSE IF U32TryFromOk(file_len_hi, file_len_lo)
            THEN /\ file_size' = file_len_lo
                 /\ Goto("Rewind")
            ELSE /\ Return(Err("try_from", "TryFromIntError", TooBigContext))
                 /\ UNCHANGED file_size
    /\ UNCHANGED <<flags, openVars, barVars, dlVars, resetVars, serialVars, preVars>>

\* file.seek(io::SeekFrom::Start(0))?
Rewind(ok) ==
    /\ pc = "Rewind"
    /\ IF ok THEN Goto("Open") ELSE Return(Err("seek", "Io", ""))
    /\ UNCHANGED <<flags, fileVars, openVars, barVars, dlVars, resetVars,
                   serialVars, preVars>>

(* ---------------------- device acquisition ----------------------------- *)

\* fault: the `if wait` guard is dropped
RetryOpen_NoWaitGuard(r, w) == r = "CouldNotOpenDevice"

\* Err(Error::CouldNotOpenDevice) if wait
RetryOpen(r, w) == r = "CouldNotOpenDevice" /\ w

\* fault: the loop has no break arm
LoopContinues_Always(r) == TRUE

\* fault: the tick arm matches every Err(_)
LoopContinues_AnyErr(r) == r # "Ok"

\* Err(Error::CouldNotOpenDevice) => bar.tick()
LoopContinues(r) == r = "CouldNotOpenDevice"

\* r.context("could not open device")?
Opened(r) ==
    IF r = "Ok"
    THEN /\ handle' = Len(opens')
         /\ Goto("Setup")
    ELSE /\ handle' = handle
         /\ Return(Err("open", r, OpenContext))

\* match DfuLibusb::open(&context, vid, pid, intf, alt)
OpenFirst(r) ==
    /\ pc = "Open"
    /\ opens' = Append(opens, r)
    /\ spinner' = spinner
    /\ IF RetryOpen(r, wait)
       THEN /\ Goto("WaitLoop")
            /\ handle' = handle
       ELSE Opened(r)
    /\ UNCHANGED <<flags, fileVars, barVars, dlVars, resetVars, serialVars, preVars>>

\* loop { sleep(250ms); match DfuLibusb::open(...) { ... } }
\* (of the "device not present" answers only the first MaxOpens are kept in
\* opens; every one of them ticks the spinner)
WaitOpen(r) ==
    /\ pc = "WaitLoop"
    /\ opens' = IF LoopContinues(r) /\ Len(opens) >= MaxOpens
                THEN opens
                ELSE Append(opens, r)
    /\ IF LoopContinues(r)
       THEN /\ Goto("WaitLoop")
            /\ spinner' = (spinner + 1) % SpinnerFrames
            /\ handle' = handle
       ELSE /\ spinner' = spinner
            /\ Opened(r)
    /\ UNCHANGED <<flags, fileVars, barVars, dlVars, resetVars, serialVars, preVars>>

(* -------------------------- transfer ----------------------------------- *)

\* fault: the `if let Some(address) = override_address` block is missing
Setup_NoOverride ==
    /\ pc = "Setup"
    /\ Goto("StartDownload")
    /\ UNCHANGED <<flags, fileVars, openVars, barVars, dlVars, resetVars,
                   serialVars, preVars>>

\* device.with_progress(...); if let Some(address) = override_address {...}
Setup ==
    /\ pc = "Setup"
    /\ nOverride' = IF override_address THEN nOverride + 1 ELSE nOverride
    /\ Goto("StartDownload")
    /\ UNCHANGED <<flags, fileVars, openVars, barVars, dlResult, recovery,
                   nDownload, resetVars, serialVars, preVars>>

\* device.download(file, file_size) is entered
StartDownload ==
    /\ pc = "StartDownload"
    /\ nDownload' = nDownload + 1
    /\ Goto("Download")
    /\ UNCHANGED <<flags, fileVars, openVars, barVars, dlResult, recovery,
                   nOverride, resetVars, serialVars, preVars>>

\* move |count| { bar.inc(count); if bar.position() == file_size { bar.finish() } }
ProgressCallback(count) ==
    /\ position' = position + count
    /\ finished' = (finished \/ position' = file_size)

\* one chunk written by device.download, reported through the callback
DownloadChunk(count) ==
    /\ pc = "Download"
    /\ position + count <= file_size
    /\ ProgressCallback(count)
    /\ Goto("Download")
    /\ UNCHANGED <<flags, fileVars, openVars, dlVars, resetVars, serialVars, preVars>>

\* fault: the `if bar.is_finished()` guard is dropped
BenignArm_IgnoresProgress(r, fin) == r = "LibUsb"

\* fault: the arm matches Err(_) instead of Err(Error::LibUsb(e))
BenignArm_AnyError(r, fin) == fin

\* Err(Error::LibUsb(e)) if bar.is_finished()
BenignArm(r, fin) == r = "LibUsb" /\ fin

\* fault: the `if reset` guard of the post-download reset is dropped
DownloadReturn_AlwaysResets(r) ==
    /\ pc = "Download"
    /\ r = "Ok" => position = file_size
    /\ dlResult' = r
    /\ IF r = "Ok"
       THEN /\ recovery' = recovery
            /\ Goto("PostReset")
       ELSE IF BenignArm(r, finished)
            THEN /\ recovery' = TRUE
                 /\ Goto("RecoveryReset")
            ELSE /\ recovery' = recovery
                 /\ Return(Err("download", r, WriteContext))
    /\ UNCHANGED <<flags, fileVars, openVars, barVars, nDownload, nOverride,
                   resetVars, serialVars, preVars>>

\* fault: a failed write that is not taken as benign is started again
DownloadReturn_Retries(r) ==
    /\ pc = "Download"
    /\ r = "Ok" => position = file_size
    /\ dlResult' = r
    /\ IF r = "Ok"
       THEN /\ recovery' = recovery
            /\ IF reset THEN Goto("PostReset") ELSE Return(Ok)
       ELSE IF BenignArm(r, finished)
            THEN /\ recovery' = TRUE
                 /\ Goto("RecoveryReset")
            ELSE /\ recovery' = recovery
                 /\ IF nDownload < 2
                    THEN Goto("StartDownload")
                    ELSE Return(Err("download", r, WriteContext))
    /\ UNCHANGED <<flags, fileVars, openVars, barVars, nDownload, nOverride,
                   resetVars, serialVars, preVars>>

\* match device.download(file, file_size) { Ok(_) => (), ... }
DownloadReturn(r) ==
    /\ pc = "Download"
    /\ r = "Ok" => position = file_size
    /\ dlResult' = r
    /\ IF r = "Ok"
       THEN /\ recovery' = recovery
            /\ IF reset THEN Goto("PostReset") ELSE Return(Ok)
       ELSE IF BenignArm(r, finished)
            THEN /\ recovery' = TRUE
                 /\ Goto("RecoveryReset")
            ELSE /\ recovery' = recovery
                 /\ Return(Err("download", r, WriteContext))
    /\ UNCHANGED <<flags, fileVars, openVars, barVars, nDownload, nOverride,
                   resetVars, serialVars, preVars>>

(* -------------------------- recovery ----------------------------------- *)

\* fault: `let _ = device.usb_reset();` instead of `device.usb_reset()?;`
RecoveryReset_IgnoresError(ok) ==
    /\ pc = "RecoveryReset"
    /\ nReset' = nReset + 1
    /\ resetResult' = IF ok THEN "Ok" ELSE "Err"
    /\ IF SerialConfigured(serial_port)
       THEN Goto("SerialWait")
       ELSE Return(Ok)
    /\ UNCHANGED <<flags, fileVars, openVars, barVars, dlVars, serialVars, preVars>>

\* fault: the arm ends without `return Ok(())` and falls out of the match
RecoveryReset_FallsThrough(ok) ==
    /\ pc = "RecoveryReset"
    /\ nReset' = nReset + 1
    /\ resetResult' = IF ok THEN "Ok" ELSE "Err"
    /\ IF ~ok
       THEN Return(Err("usb_reset", "LibUsb", ""))
       ELSE IF SerialConfigured(serial_port)
            THEN Goto("SerialWait")
            ELSE IF reset THEN Goto("PostReset") ELSE Return(Ok)
    /\ UNCHANGED <<flags, fileVars, openVars, barVars, dlVars, serialVars, preVars>>

\* device.usb_reset()?; if let Some(serial_port) = &serial_port { ... }
RecoveryReset(ok) ==
    /\ pc = "RecoveryReset"
    /\ nReset' = nReset + 1
    /\ resetResult' = IF ok THEN "Ok" ELSE "Err"
    /\ IF ~ok
       THEN Return(Err("usb_reset", "LibUsb", ""))
       ELSE IF SerialConfigured(serial_port)
            THEN Goto("SerialWait")
            ELSE Return(Ok)
    /\ UNCHANGED <<flags, fileVars, openVars, barVars, dlVars, serialVars, preVars>>

\* fault: the listing is never compared with the configured name
SerialMatch_Never(r, name) == FALSE

\* if let Ok(r) = serialport::available_ports() { ... r.contains(&serial_port) }
SerialMatch(r, name) == r.ok /\ name \in r.ports

\* fault: `serialport::available_ports()?` instead of `if let Ok(r) = ...`
SerialPoll_ErrFatal(r) ==
    /\ pc = "SerialWait"
    /\ poll < SerialPolls
    /\ poll' = poll + 1
    /\ nEnum' = nEnum + 1
    /\ enumFailed' = (enumFailed \/ ~r.ok)
    /\ firstMatch' = IF firstMatch = 0 /\ r.ok /\ serial_port \in r.ports
                     THEN nEnum' ELSE firstMatch
    /\ IF ~r.ok
       THEN Return(Err("available_ports", "serialport", ""))
       ELSE IF SerialMatch(r, serial_port)
            THEN Return(Ok)
            ELSE IF poll' = SerialPolls
                 THEN Return(Ok)
                 ELSE Goto("SerialWait")
    /\ UNCHANGED <<flags, fileVars, openVars, barVars, dlVars, resetVars, preVars>>

\* one iteration of for _ in 0..20, and the fall-through after the last one
SerialPoll(r) ==
    /\ pc = "SerialWait"
    /\ poll < SerialPolls
    /\ poll' = poll + 1
    /\ nEnum' = nEnum + 1
    /\ enumFailed' = (enumFailed \/ ~r.ok)
    /\ firstMatch' = IF firstMatch = 0 /\ r.ok /\ serial_port \in r.ports
                     THEN nEnum' ELSE firstMatch
    /\ IF SerialMatch(r, serial_port)
       THEN Return(Ok)
       ELSE IF poll' = SerialPolls
            THEN Return(Ok)
            ELSE Goto("SerialWait")
    /\ UNCHANGED <<flags, fileVars, openVars, barVars, dlVars, resetVars, preVars>>

(* --------------------- post-download reset ----------------------------- *)

\* fault: `let _ = device.usb_reset();` instead of `device.usb_reset()?;`
PostReset_IgnoresError(ok) ==
    /\ pc = "PostReset"
    /\ nReset' = nReset + 1
    /\ resetResult' = IF ok THEN "Ok" ELSE "Err"
    /\ Return(Ok)
    /\ UNCHANGED <<flags, fileVars, openVars, barVars, dlVars, serialVars, preVars>>

\* if reset { device.usb_reset()?; } Ok(())
PostReset(ok) ==
    /\ pc = "PostReset"
    /\ nReset' = nReset + 1
    /\ resetResult' = IF ok THEN "Ok" ELSE "Err"
    /\ IF ok THEN Return(Ok) ELSE Return(Err("usb_reset", "LibUsb", ""))
    /\ UNCHANGED <<flags, fileVars, openVars, barVars, dlVars, serialVars, preVars>>

(* ------------------- parse_vid_pid, parse_address ---------------------- *)

DecChars == <<"0", "1", "2", "3", "4", "5", "6", "7", "8", "9">>
LowerHexChars == <<"a", "b", "c", "d", "e", "f">>
UpperHexChars == <<"A", "B", "C", "D", "E", "F">>

\* 2^16, the base of the limbs a u32 is held in
Limb == 65536
\* largest high limb of a u16 and of a u32
U16MaxHi == 0
U32MaxHi == Limb - 1

IndexOf(seq, c) ==
    IF \E i \in 1..Len(seq) : seq[i] = c
    THEN CHOOSE i \in 1..Len(seq) : seq[i] = c
    ELSE 0

\* char::to_digit(radix): -1 stands for None
ToDigit(c, radix) ==
    LET d == IF IndexOf(DecChars, c) > 0 THEN IndexOf(DecChars, c) - 1
             ELSE IF IndexOf(LowerHexChars, c) > 0 THEN 9 + IndexOf(LowerHexChars, c)
             ELSE IF IndexOf(UpperHexChars, c) > 0 THEN 9 + IndexOf(UpperHexChars, c)
             ELSE -1
    IN  IF d >= 0 /\ d < radix THEN d ELSE -1

ParseOk(fn, a, b) == [fn |-> fn, ok |-> TRUE, a |-> a, b |-> b, err |-> ""]
ParseErr(fn, err) == [fn |-> fn, ok |-> FALSE, a |-> 0, b |-> 0, err |-> err]

\* the digit loop of from_str_radix: result.checked_mul(radix) then
\* checked_add(digit), on the value hi * 2^16 + lo
RECURSIVE Accumulate(_, _, _, _, _, _)
Accumulate(digits, i, hi, lo, radix, maxHi) ==
    IF i > Len(digits)
    THEN ParseOk("from_str_radix", hi, lo)
    ELSE LET x == ToDigit(digits[i], radix)
             mlo == lo * radix
             mhi == hi * radix + (mlo \div Limb)
             alo == (mlo % Limb) + x
             ahi == mhi + (alo \div Limb)
         IN  IF x < 0 THEN ParseErr("from_str_radix", "InvalidDigit")
             ELSE IF mhi > maxHi THEN ParseErr("from_str_radix", "PosOverflow")
             ELSE IF ahi > maxHi THEN ParseErr("from_str_radix", "PosOverflow")
             ELSE Accumulate(digits, i + 1, ahi, alo % Limb, radix, maxHi)

\* from_str_radix of an unsigned type: a leading '+' is skipped, '-' is not
StripSign(src) == IF src[1] = "+" THEN Tail(src) ELSE src

\* uN::from_str_radix(src, radix), N = 16 (maxHi = 0) or 32 (maxHi = 2^16 - 1)
FromStrRadix(src, radix, maxHi) ==
    IF Len(src) = 0 THEN ParseErr("from_str_radix", "Empty")
    ELSE IF Len(src) = 1 /\ src[1] \in {"+", "-"}
         THEN ParseErr("from_str_radix", "InvalidDigit")
         ELSE Accumulate(StripSign(src), 1, 0, 0, radix, maxHi)

\* str::split_once(':'): the parts around the first ':'
SplitOnce(s) ==
    LET i == IndexOf(s, ":")
    IN  IF i = 0
        THEN [found |-> FALSE, before |-> <<>>, after |-> <<>>]
        ELSE [found |-> TRUE, before |-> SubSeq(s, 1, i - 1),
              after |-> SubSeq(s, i + 1, Len(s))]

\* Cli::parse_vid_pid
parse_vid_pid(s) ==
    LET sp == SplitOnce(s)
        vid == FromStrRadix(sp.before, 16, U16MaxHi)
        pid == FromStrRadix(sp.after, 16, U16MaxHi)
    IN  IF ~sp.found THEN ParseErr("parse_vid_pid", "could not parse VID/PID (missing `:')")
        ELSE IF ~vid.ok THEN ParseErr("parse_vid_pid", "could not parse VID")
        ELSE IF ~pid.ok THEN ParseErr("parse_vid_pid", "could not parse PID")
        ELSE ParseOk("parse_vid_pid", vid.b, pid.b)

\* u8::to_ascii_lowercase
AsciiLower(c) ==
    IF IndexOf(UpperHexChars, c) > 0 THEN LowerHexChars[IndexOf(UpperHexChars, c)]
    ELSE IF c = "X" THEN "x"
    ELSE c

\* s.to_ascii_lowercase().starts_with("0x")
HasHexPrefix(s) ==
    /\ Len(s) >= 2
    /\ AsciiLower(s[1]) = "0"
    /\ AsciiLower(s[2]) = "x"

\* Cli::parse_address: the u32 is returned as (a, b) = (high limb, low limb)
parse_address(s) ==
    LET r == IF HasHexPrefix(s)
             THEN FromStrRadix(SubSeq(s, 3, Len(s)), 16, U32MaxHi)
             ELSE FromStrRadix(s, 10, U32MaxHi)
    IN  IF r.ok THEN ParseOk("parse_address", r.a, r.b)
        ELSE ParseErr("parse_address", "could not parse override address")

\* characters the short arguments are built from
ParseAlphabet == {"0", "1", "F", "g", "x", "+", ":"}

RECURSIVE StringsUpTo(_)
StringsUpTo(n) ==
    IF n = 0 THEN {<<>>}
    ELSE LET shorter == StringsUpTo(n - 1)
         IN  shorter \cup {Append(t, c) : t \in shorter, c \in ParseAlphabet}

\* arguments at the limits of u16 and u32, and the default of --device
LongTexts == {<<"0", "0", "0", "0", "1">>,
              <<"f", "f", "f", "f">>,
              <<"F", "F", "F", "F">>,
              <<"1", "0", "0", "0", "0">>,
              <<"1", "E", "A", "F">>,
              <<"0", "0", "0", "3">>,
              <<"+", "1", "E", "A", "F">>,
              <<"4", "2", "9", "4", "9", "6", "7", "2", "9", "5">>,
              <<"4", "2", "9", "4", "9", "6", "7", "2", "9", "6">>,
              <<"f", "f", "f", "f", "f", "f", "f", "f">>,
              <<"1", "0", "0", "0", "0", "0", "0", "0", "0">>,
              <<"+", "4", "2", "9", "4", "9", "6", "7", "2", "9", "5">>}

HalfTexts == StringsUpTo(MaxText) \cup LongTexts

ParseInputs ==
    HalfTexts
    \cup {h1 \o <<":">> \o h2 : h1 \in HalfTexts, h2 \in HalfTexts}
    \cup {<<"0", px>> \o h : px \in {"x", "X"}, h \in HalfTexts}

InitParse ==
    /\ pc = "Parse"
    /\ text \in ParseInputs
    /\ parsed = NotParsed
    /\ wait = FALSE
    /\ reset = FALSE
    /\ serial_port = NoPort
    /\ override_address = FALSE
    /\ file_len_hi = 0
    /\ file_len_lo = 0
    /\ file_size = 0
    /\ opens = <<>>
    /\ handle = 0
    /\ position = 0
    /\ finished = FALSE
    /\ dlResult = "none"
    /\ recovery = FALSE
    /\ resetResult = "none"
    /\ nReset = 0
    /\ nDownload = 0
    /\ nOverride = 0
    /\ nPreReset = 0
    /\ preResetResult = "none"
    /\ spinner = 0
    /\ poll = 0
    /\ nEnum = 0
    /\ firstMatch = 0
    /\ enumFailed = FALSE
    /\ result = Running

\* clap calls Cli::parse_vid_pid on the --device argument
ParseVidPid ==
    /\ pc = "Parse"
    /\ parsed' = parse_vid_pid(text)
    /\ pc' = "Parsed"
    /\ UNCHANGED <<text, options, fileVars, openVars, barVars, dlVars, resetVars,
                   serialVars, preVars, result>>

\* clap calls Cli::parse_address on the --override-address argument
ParseAddress ==
    /\ pc = "Parse"
    /\ parsed' = parse_address(text)
    /\ pc' = "Parsed"
    /\ UNCHANGED <<text, options, fileVars, openVars, barVars, dlVars, resetVars,
                   serialVars, preVars, result>>

NextParse == ParseVidPid \/ ParseAddress

SpecParse == InitParse /\ [][NextParse]_vars

(* ------------------------ examples/describe.rs ------------------------- *)

\* describe: simplelog::SimpleLogger::init(log_level, Default::default())?
DescribeLoggerInit(ok) ==
    /\ pc = "D_Logger"
    /\ IF ok THEN Goto("D_PreReset") ELSE Return(Err("logger", "SetLoggerError", ""))
    /\ UNCHANGED <<flags, fileVars, openVars, barVars, dlVars, resetVars,
                   serialVars, preVars>>

\* describe: reset_mcu(&serial_port), both arms fall through to bar.finish()
DescribePreReset(ok) ==
    /\ pc = "D_PreReset"
    /\ IF SerialConfigured(serial_port)
       THEN /\ nPreReset' = nPreReset + 1
            /\ preResetResult' = IF ok THEN "Ok" ELSE "Err"
       ELSE UNCHANGED preVars
    /\ Goto("D_Context")
    /\ UNCHANGED <<flags, fileVars, openVars, barVars, dlVars, resetVars, serialVars>>

\* describe: rusb::Context::new()?
DescribeContextNew(ok) ==
    /\ pc = "D_Context"
    /\ IF ok THEN Goto("D_Open") ELSE Return(Err("context", "LibUsb", ""))
    /\ UNCHANGED <<flags, fileVars, openVars, barVars, dlVars, resetVars,
                   serialVars, preVars>>

\* describe: DfuLibusb::open(...).context("could not open device")?;
\* println!(functional_descriptor); Ok(())
DescribeOpen(r) ==
    /\ pc = "D_Open"
    /\ opens' = Append(opens, r)
    /\ spinner' = spinner
    /\ IF r = "Ok"
       THEN /\ handle' = Len(opens')
            /\ Return(Ok)
       ELSE /\ handle' = handle
            /\ Return(Err("open", r, OpenContext))
    /\ UNCHANGED <<flags, fileVars, barVars, dlVars, resetVars, serialVars, preVars>>

Next ==
    \/ \E ok \in BOOLEAN : LoggerInit(ok)
    \/ \E ok \in BOOLEAN : PreReset(ok)
    \/ \E ok \in BOOLEAN : ContextNew(ok)
    \/ \E ok \in BOOLEAN : FileOpen(ok)
    \/ \E ok \in BOOLEAN : FileSize(ok)
    \/ \E ok \in BOOLEAN : Rewind(ok)
    \/ \E r \in OpenResults : OpenFirst(r)
    \/ \E r \in OpenResults : WaitOpen(r)
    \/ Setup
    \/ StartDownload
    \/ \E count \in 1..MaxLen + 1 : DownloadChunk(count)
    \/ \E r \in DownloadResults : DownloadReturn(r)
    \/ \E ok \in BOOLEAN : RecoveryReset(ok)
    \/ \E r \in PortListings : SerialPoll(r)
    \/ \E ok \in BOOLEAN : PostReset(ok)

Spec == Init /\ [][Next]_vars

\* every call of Cli::run returns: a step is taken whenever one is possible
\* (the wait loop may go on for ever with "device not present" answers)
FairSpec == Spec /\ WF_vars(Next)

\* entry of describe's Cli::run: no firmware file, --wait, --reset or
\* --override-address
InitDescribe ==
    /\ pc = "D_Logger"
    /\ wait = FALSE
    /\ reset = FALSE
    /\ serial_port \in SerialPortOptions
    /\ override_address = FALSE
    /\ file_len_hi = 0
    /\ file_len_lo = 0
    /\ file_size = 0
    /\ opens = <<>>
    /\ handle = 0
    /\ position = 0
    /\ finished = FALSE
    /\ dlResult = "none"
    /\ recovery = FALSE
    /\ resetResult = "none"
    /\ nReset = 0
    /\ nDownload = 0
    /\ nOverride = 0
    /\ nPreReset = 0
    /\ preResetResult = "none"
    /\ spinner = 0
    /\ poll = 0
    /\ nEnum = 0
    /\ firstMatch = 0
    /\ enumFailed = FALSE
    /\ text = <<>>
    /\ parsed = NotParsed
    /\ result = Running

NextDescribe ==
    \/ \E ok \in BOOLEAN : DescribeLoggerInit(ok)
    \/ \E ok \in BOOLEAN : DescribePreReset(ok)
    \/ \E ok \in BOOLEAN : DescribeContextNew(ok)
    \/ \E r \in OpenResults : DescribeOpen(r)

\* a session of either example program
SpecTools == (Init \/ InitDescribe) /\ [][Next \/ NextDescribe]_vars

TypeOK ==
    /\ pc \in {"Parse", "Parsed", "D_Logger", "D_PreReset", "D_Context", "D_Open",
               "Logger", "PreReset", "Context", "FileOpen", "FileSize", "Rewind",
               "Open", "WaitLoop", "Setup", "StartDownload", "Download", "RecoveryReset",
               "SerialWait", "PostReset", "Done"}
    /\ position \in 0..file_size
    /\ poll \in 0..SerialPolls
    /\ result.status \in {"Running", "Ok", "Err"}
    /\ (pc = "Done") = (result.status # "Running")
    /\ (pc = "Parsed") = (parsed.fn # "none")

(* ============================ claims =================================== *)

NotFound == "CouldNotOpenDevice"

\* C1: whenever the firmware write failed with a transport-class error while
\* the cumulative progress equals the image length (an empty image included),
\* the recovery arm was entered and the write error is not the session result.
C1_FullProgressNeverGenuine ==
    (dlResult = "LibUsb" /\ position = file_size)
        => /\ recovery
           /\ ~(result.status = "Err" /\ result.op = "download")

\* C2: a transport-class write failure below full progress ends the session
\* with the original write error, without any bus reset or port enumeration,
\* whatever --serial-port and --reset are.
C2_PartialProgressGenuine ==
    (dlResult = "LibUsb" /\ position < file_size)
        => /\ pc = "Done"
           /\ result = Err("download", "LibUsb", WriteContext)
           /\ ~recovery
           /\ nReset = 0
           /\ nEnum = 0

C2_Witness ==
    /\ dlResult = "LibUsb"
    /\ 0 < position
    /\ position < file_size
    /\ serial_port # NoPort
    /\ reset
    /\ pc = "Done"

\* C3: without --wait, a first open answering "device not present" is the
\* only open attempt and ends the session with that error, with no write,
\* address override or bus reset.
C3_NonBlockingSingleProbe ==
    (~wait /\ Len(opens) >= 1 /\ opens[1] = NotFound)
        => /\ Len(opens) = 1
           /\ pc = "Done"
           /\ result = Err("open", NotFound, OpenContext)
           /\ handle = 0
           /\ nDownload = 0
           /\ nOverride = 0
           /\ nReset = 0

C3_Witness ==
    /\ ~wait
    /\ opens = <<NotFound>>
    /\ pc = "Done"

\* C4: with --wait, if the first N open attempts answer "device not present"
\* and attempt N+1 succeeds, attempt N+1 is the last open attempt of the
\* session and its handle is the one used.
C4_BlockingOpensOnceMore ==
    wait =>
        \A N \in 0..(Len(opens) - 1) :
            ((\A i \in 1..N : opens[i] = NotFound) /\ opens[N + 1] = "Ok")
                => /\ Len(opens) = N + 1
                   /\ handle = N + 1

C4_Witness ==
    /\ wait
    /\ Len(opens) >= 3
    /\ handle = Len(opens)
    /\ pc = "Done"
    /\ result = Ok

\* C5: an open attempt failing with anything but "device not present" is the
\* last open attempt and its error is the session result, for the first
\* attempt and inside the wait loop, with or without --wait.
C5_OtherOpenErrorsFatal ==
    \A i \in 1..Len(opens) :
        opens[i] \notin {"Ok", NotFound}
            => /\ Len(opens) = i
               /\ pc = "Done"
               /\ result = Err("open", opens[i], OpenContext)
               /\ handle = 0
               /\ nDownload = 0

C5_Witness ==
    /\ wait
    /\ Len(opens) >= 2
    /\ opens[Len(opens)] = "LibUsbBusy"
    /\ pc = "Done"

WriteSucceeded == dlResult = "Ok" /\ (~reset \/ resetResult = "Ok")
BenignDisconnect == dlResult = "LibUsb" /\ position = file_size /\ recovery

\* C6 (as stated): a finished session is a success exactly when the write
\* succeeded (and the requested reset, if any, succeeded) or the write failed
\* with a transport-class error at full progress and was taken as benign.
C6_SuccessIffAsStated ==
    pc = "Done" => (result = Ok <=> (WriteSucceeded \/ BenignDisconnect))

\* C6 (amended): as above, where the benign case also needs the recovery bus
\* reset to have succeeded.
C6_SuccessIff ==
    pc = "Done" =>
        (result = Ok <=> (WriteSucceeded \/ (BenignDisconnect /\ resetResult = "Ok")))

C6_Witness ==
    /\ pc = "Done"
    /\ BenignDisconnect
    /\ resetResult = "Ok"
    /\ result = Ok

\* C7: after the recovery bus reset succeeded with --serial-port given, at
\* most 20 port listings are taken; the first listing holding the port name
\* is the last one, the loop otherwise runs exactly 20 listings, and either
\* way the session ends in success.
C7_SerialWaitBounded ==
    (serial_port # NoPort /\ recovery /\ resetResult = "Ok")
        => /\ nEnum <= SerialPolls
           /\ firstMatch # 0 => (nEnum = firstMatch /\ pc = "Done" /\ result = Ok)
           /\ (firstMatch = 0 /\ nEnum < SerialPolls) => pc = "SerialWait"
           /\ pc = "Done" => (result = Ok /\ (firstMatch # 0 \/ nEnum = SerialPolls))

C7_Witness ==
    /\ serial_port # NoPort
    /\ recovery
    /\ pc = "Done"
    /\ firstMatch = 0
    /\ nEnum = SerialPolls
    /\ result = Ok

\* C8: a failed recovery bus reset ends the session with the reset error and
\* no port listing is taken, --serial-port given or not.
C8_RecoveryResetFailureFatal ==
    (recovery /\ resetResult = "Err")
        => /\ pc = "Done"
           /\ result = Err("usb_reset", "LibUsb", "")
           /\ nEnum = 0

C8_Witness ==
    /\ recovery
    /\ resetResult = "Err"
    /\ serial_port # NoPort

\* C9: without --serial-port no port listing is ever taken, and a successful
\* recovery bus reset ends the session in success at once.
C9_NoSerialRecovered ==
    serial_port = NoPort
        => /\ nEnum = 0
           /\ (recovery /\ resetResult = "Ok") => (pc = "Done" /\ result = Ok)

C9_Witness ==
    /\ serial_port = NoPort
    /\ recovery
    /\ resetResult = "Ok"
    /\ pc = "Done"

\* C10: the recovery arm is entered only on a transport-class write failure:
\* a write failure of another class is the session result even at full
\* progress, and a successful write never enters the recovery arm.
C10_RecoveryOnlyOnTransport ==
    /\ recovery => dlResult = "LibUsb"
    /\ pc \in {"RecoveryReset", "SerialWait"} => recovery
    /\ dlResult \in {"Dfu", "Io"}
        => /\ pc = "Done"
           /\ result = Err("download", dlResult, WriteContext)
           /\ nReset = 0
           /\ nEnum = 0
    /\ dlResult = "Ok" => nEnum = 0

C10_Witness ==
    /\ dlResult = "Dfu"
    /\ file_size > 0
    /\ position = file_size
    /\ finished
    /\ pc = "Done"

\* C11: after a successful write, --reset gives exactly one bus reset, issued
\* after the write returned, whose failure is the session result; without
\* --reset a successful write is followed by no bus reset at all.
C11_PostDownloadReset ==
    /\ (dlResult = "Ok" /\ reset)
        => \/ pc = "PostReset" /\ nReset = 0
           \/ /\ pc = "Done"
              /\ nReset = 1
              /\ resetResult = "Ok" => result = Ok
              /\ resetResult = "Err" => result = Err("usb_reset", "LibUsb", "")
              /\ resetResult \in {"Ok", "Err"}
    /\ (dlResult = "Ok" /\ ~reset)
        => (nReset = 0 /\ pc = "Done" /\ result = Ok)
    /\ pc = "PostReset" => (dlResult = "Ok" /\ reset)

C11_Witness ==
    /\ dlResult = "Ok"
    /\ reset
    /\ nReset = 1
    /\ resetResult = "Err"
    /\ pc = "Done"

\* C13: with --override-address the address is set exactly once, on an
\* acquired device and before device.download is entered; without it the
\* address is never set.
C13_OverrideBeforeWrite ==
    /\ override_address
        => /\ nOverride <= 1
           /\ nOverride = 1 => handle # 0
           /\ (nDownload >= 1 \/ position > 0 \/ dlResult # "none") => nOverride = 1
           /\ pc = "StartDownload" => nOverride = 1
    /\ ~override_address => nOverride = 0

C13_Witness ==
    /\ override_address
    /\ nOverride = 1
    /\ nDownload = 0
    /\ pc = "StartDownload"

PastFileSize ==
    pc \in {"Rewind", "Open", "WaitLoop", "Setup", "StartDownload", "Download",
            "RecoveryReset", "SerialWait", "PostReset"}

\* C14: a firmware file longer than u32::MAX ends the session at the length
\* check, before any open, address override, write or bus reset; a length
\* that fits passes the check and file_size is the exact length.
C14_TooBigRejected ==
    /\ file_len_hi > 0
        => /\ ~PastFileSize
           /\ Len(opens) = 0
           /\ nOverride = 0
           /\ nDownload = 0
           /\ nReset = 0
           /\ result.op = "try_from" => result = Err("try_from", "TryFromIntError", TooBigContext)
    /\ file_len_hi = 0
        => /\ result.op # "try_from"
           /\ PastFileSize => file_size = file_len_lo

C14_Witness ==
    /\ file_len_hi > 0
    /\ file_len_lo = 0
    /\ pc = "Done"
    /\ result = Err("try_from", "TryFromIntError", TooBigContext)

\* C15: a failed port listing is never the session result; it uses up one of
\* the 20 polls and the loop goes on, so a later listing holding the port
\* name still ends the session as confirmed.
C15_FailedListingIsNoMatch ==
    /\ nEnum = poll
    /\ enumFailed
        => /\ result.status # "Err"
           /\ (firstMatch = 0 /\ poll < SerialPolls) => pc = "SerialWait"
           /\ firstMatch # 0 => (pc = "Done" /\ result = Ok /\ nEnum = firstMatch)
           /\ pc = "Done" => result = Ok

C15_Witness ==
    /\ enumFailed
    /\ firstMatch > 1
    /\ pc = "Done"
    /\ result = Ok

\* C16: device.download is entered at most once in a session, and only on an
\* acquired device.
C16_WriteAtMostOnce ==
    /\ nDownload <= 1
    /\ nDownload = 1 => (handle # 0 /\ opens[handle] = "Ok")
    /\ (dlResult # "none" \/ position > 0) => nDownload = 1

C16_Witness ==
    /\ nDownload = 1
    /\ dlResult = "LibUsb"
    /\ position < file_size
    /\ pc = "Done"

\* C20: at most one bus reset is issued in a session and only after the write
\* returned; a session that took the recovery arm never reaches the
\* post-download reset.
C20_AtMostOneBusReset ==
    /\ nReset <= 1
    /\ nReset = 1 => dlResult # "none"
    /\ pc \in {"RecoveryReset", "PostReset"} => (nReset = 0 /\ dlResult # "none")
    /\ recovery => pc # "PostReset"
    /\ (recovery /\ nReset = 1 /\ resetResult = "Ok" /\ pc = "Done") => result = Ok

C20_Witness ==
    /\ recovery
    /\ reset
    /\ nReset = 1
    /\ resetResult = "Ok"
    /\ pc = "Done"

BeforePreReset == pc \in {"Logger", "PreReset", "D_Logger", "D_PreReset"}

\* C12: in both example programs reset_mcu is called once, before the first
\* open attempt, exactly when --serial-port is given; its failure is never
\* the session result and the session goes on to the device acquisition.
C12_PreResetBestEffort ==
    /\ nPreReset <= 1
    /\ serial_port = NoPort => (nPreReset = 0 /\ preResetResult = "none")
    /\ (serial_port # NoPort /\ (Len(opens) >= 1 \/ pc \in {"Context", "D_Context"}))
        => (nPreReset = 1 /\ preResetResult \in {"Ok", "Err"})
    /\ nPreReset = 1 => ~BeforePreReset
    /\ result.op # "reset_mcu"
    /\ (preResetResult = "Err" /\ Len(opens) = 0 /\ pc = "Done")
        => result.op \in {"context", "file", "seek", "try_from"}

C12_Witness ==
    /\ preResetResult = "Err"
    /\ nPreReset = 1
    /\ handle # 0
    /\ nDownload = 1
    /\ pc = "Done"
    /\ result = Ok

(* ----------------- what a numeral denotes (reference) ------------------ *)

HexDigitChars == {"0", "1", "2", "3", "4", "5", "6", "7", "8", "9",
                  "a", "b", "c", "d", "e", "f", "A", "B", "C", "D", "E", "F"}
DecDigitChars == {"0", "1", "2", "3", "4", "5", "6", "7", "8", "9"}

AllIn(s, chars) == \A i \in 1..Len(s) : s[i] \in chars

DigitValue(c) ==
    CHOOSE d \in 0..15 :
        \/ d <= 9 /\ DecChars[d + 1] = c
        \/ d >= 10 /\ c \in {LowerHexChars[d - 9], UpperHexChars[d - 9]}

\* the number a digit string denotes in the radix, as <<high, low>> with
\* value = high * 2^16 + low (high is not bounded)
RECURSIVE Denotes(_, _)
Denotes(s, radix) ==
    IF Len(s) = 0 THEN <<0, 0>>
    ELSE LET front == Denotes(SubSeq(s, 1, Len(s) - 1), radix)
             lo == front[2] * radix + DigitValue(s[Len(s)])
         IN  <<front[1] * radix + (lo \div Limb), lo % Limb>>

FirstColon == CHOOSE i \in 1..Len(text) :
                  text[i] = ":" /\ \A j \in 1..(i - 1) : text[j] # ":"
VidText == SubSeq(text, 1, FirstColon - 1)
PidText == SubSeq(text, FirstColon + 1, Len(text))

\* a non-empty string of hexadecimal digits denoting a value below 2^16
IsHex16(s) == Len(s) > 0 /\ AllIn(s, HexDigitChars) /\ Denotes(s, 16)[1] = 0

WellFormedVidPid ==
    /\ \E i \in 1..Len(text) : text[i] = ":"
    /\ IsHex16(VidText)
    /\ IsHex16(PidText)

\* C17: parse_vid_pid returns (value(H1), value(H2)) for H1:H2 with both
\* halves non-empty hexadecimal digit strings below 2^16, and fails for
\* every other string (no ':', or a half around the first ':' that is empty,
\* has a non-hexadecimal character or denotes 2^16 or more).
C17_ParseVidPidAsStated ==
    (pc = "Parsed" /\ parsed.fn = "parse_vid_pid")
        => IF WellFormedVidPid
           THEN /\ parsed.ok
                /\ parsed.a = Denotes(VidText, 16)[2]
                /\ parsed.b = Denotes(PidText, 16)[2]
           ELSE ~parsed.ok

HexPrefixed ==
    Len(text) >= 2 /\ text[1] = "0" /\ text[2] \in {"x", "X"}
Remainder == SubSeq(text, 3, Len(text))

WellFormedAddress ==
    IF HexPrefixed
    THEN Len(Remainder) > 0 /\ AllIn(Remainder, HexDigitChars)
         /\ Denotes(Remainder, 16)[1] < Limb
    ELSE Len(text) > 0 /\ AllIn(text, DecDigitChars)
         /\ Denotes(text, 10)[1] < Limb

AddressValue == IF HexPrefixed THEN Denotes(Remainder, 16) ELSE Denotes(text, 10)

\* C18: parse_address returns the value of a decimal numeral or of the
\* hexadecimal digits after a 0x/0X prefix when it is below 2^32, and fails
\* for a value of 2^32 or more and for a remainder that is empty or has a
\* non-numeric character.
C18_ParseAddressAsStated ==
    (pc = "Parsed" /\ parsed.fn = "parse_address")
        => IF WellFormedAddress
           THEN /\ parsed.ok
                /\ <<parsed.a, parsed.b>> = AddressValue
           ELSE ~parsed.ok

SomeOpenAnswered == \E i \in 1..Len(opens) : opens[i] # NotFound
FailedBeforeAcquisition ==
    /\ Len(opens) = 0
    /\ result.status = "Err"
    /\ result.op \in {"logger", "context", "file", "seek", "try_from"}

\* C19 (as stated, the "only if" half): a finished session with --wait has
\* had an open attempt that answered something other than "device not
\* present".
C19_WaitEndsOnlyAfterAnswer ==
    (wait /\ pc = "Done") => SomeOpenAnswered

\* C19 (amended): every call returning, a session without --wait always ends;
\* a session with --wait ends once an open attempt answers something other
\* than "device not present", and ends only then or by failing before the
\* device acquisition; while the answers are "device not present" it stays in
\* the wait loop and no write is started.
C19_Termination ==
    /\ (~wait) ~> (pc = "Done")
    /\ (wait /\ SomeOpenAnswered) ~> (pc = "Done")
    /\ [](wait /\ pc = "Done" => (SomeOpenAnswered \/ FailedBeforeAcquisition))
    /\ [](pc = "WaitLoop" => (wait /\ ~SomeOpenAnswered /\ nDownload = 0))
    /\ []((pc = "Done" /\ ~SomeOpenAnswered) => nDownload = 0)

C19_Witness ==
    /\ wait
    /\ pc = "WaitLoop"
    /\ Len(opens) >= MaxOpens
    /\ spinner = 0
    /\ ~SomeOpenAnswered
====
